---- MODULE Spec2Model ----
(***************************************************************************)
(* Model of the browser chrome's state-update layer: the deck of web       *)
(* viewers (open / close / navigate), the blank session, and the session   *)
(* persistence through localStorage (writeSession / readSession).          *)
(*                                                                         *)
(* The application state is one immutable tree; every event handler of the *)
(* Browser component is one atomic action on it.                           *)
(***************************************************************************)
EXTENDS Integers, Sequences, FiniteSets, TLC

VARIABLES
  phase,         \* "boot": index.js has not rendered yet; "running"; "crashed"
  state,         \* the immutable application state handed to render
  localStorage,  \* window.localStorage: key -> [present, text]
  last           \* the handler that ran last, with the state it ran on

vars == <<phase, state, localStorage, last>>

\* ---------------------------------------------------------------- bounds

\* Largest number of web viewers the deck may hold in the model.
MaxViewers == 3

\* ------------------------------------------------------- JavaScript values

\* JavaScript's null inside the typed state (the uri of a blank viewer).
null == "\\null"

\* A JavaScript value as produced by toJSON(): a tagged tree.
JNull == [t |-> "null"]
JBool(b) == [t |-> "b", b |-> b]
JNum(n) == [t |-> "n", n |-> n]
JStr(s) == [t |-> "s", s |-> s]
JArr(a) == [t |-> "a", a |-> a]
JObj(o) == [t |-> "o", o |-> o]
Pair(k, v) == [k |-> k, v |-> v]

\* A string-or-null leaf of the state as a JavaScript value.
JStrOrNull(s) == IF s = null THEN JNull ELSE JStr(s)

\* ------------------------------------------------------------ JSON text

\* JSON text is modelled as its sequence of lexical tokens.
Tok(k) == [k |-> k, s |-> "", n |-> 0]
TokStr(s) == [k |-> "str", s |-> s, n |-> 0]
TokNum(n) == [k |-> "num", s |-> "", n |-> n]

RECURSIVE Stringify(_)
RECURSIVE StringifyMembers(_, _)
RECURSIVE StringifyElements(_, _)

\* JSON.stringify of the members o[i..] of an object.
StringifyMembers(o, i) ==
  IF i > Len(o) THEN <<>>
  ELSE (IF i > 1 THEN <<Tok(",")>> ELSE <<>>)
       \o <<TokStr(o[i].k), Tok(":")>> \o Stringify(o[i].v)
       \o StringifyMembers(o, i + 1)

\* JSON.stringify of the elements a[i..] of an array.
StringifyElements(a, i) ==
  IF i > Len(a) THEN <<>>
  ELSE (IF i > 1 THEN <<Tok(",")>> ELSE <<>>)
       \o Stringify(a[i]) \o StringifyElements(a, i + 1)

\* JSON.stringify(v).
Stringify(v) ==
  CASE v.t = "null" -> <<Tok("null")>>
    [] v.t = "b" -> <<Tok(IF v.b THEN "true" ELSE "false")>>
    [] v.t = "n" -> <<TokNum(v.n)>>
    [] v.t = "s" -> <<TokStr(v.s)>>
    [] v.t = "a" -> <<Tok("[")>> \o StringifyElements(v.a, 1) \o <<Tok("]")>>
    [] v.t = "o" -> <<Tok("{")>> \o StringifyMembers(v.o, 1) \o <<Tok("}")>>

\* Result of parsing from position i: ok, the value, the next position.
ParseFail == [ok |-> FALSE, v |-> JNull, i |-> 0]
ParseOk(v, i) == [ok |-> TRUE, v |-> v, i |-> i]

RECURSIVE ParseValue(_, _)
RECURSIVE ParseMembers(_, _, _)
RECURSIVE ParseElements(_, _, _)

\* The members of an object after "{" or ","; acc holds those read so far.
ParseMembers(toks, i, acc) ==
  IF i + 1 > Len(toks) \/ toks[i].k # "str" \/ toks[i + 1].k # ":"
  THEN ParseFail
  ELSE LET r == ParseValue(toks, i + 2) IN
       IF ~r.ok \/ r.i > Len(toks) THEN ParseFail
       ELSE LET acc2 == Append(acc, Pair(toks[i].s, r.v)) IN
            CASE toks[r.i].k = "}" -> ParseOk(JObj(acc2), r.i + 1)
              [] toks[r.i].k = "," -> ParseMembers(toks, r.i + 1, acc2)
              [] OTHER -> ParseFail

\* The elements of an array after "[" or ","; acc holds those read so far.
ParseElements(toks, i, acc) ==
  LET r == ParseValue(toks, i) IN
  IF ~r.ok \/ r.i > Len(toks) THEN ParseFail
  ELSE LET acc2 == Append(acc, r.v) IN
       CASE toks[r.i].k = "]" -> ParseOk(JArr(acc2), r.i + 1)
         [] toks[r.i].k = "," -> ParseElements(toks, r.i + 1, acc2)
         [] OTHER -> ParseFail

\* One JSON value starting at toks[i].
ParseValue(toks, i) ==
  IF i > Len(toks) THEN ParseFail
  ELSE LET k == toks[i].k IN
    CASE k = "null" -> ParseOk(JNull, i + 1)
      [] k = "true" -> ParseOk(JBool(TRUE), i + 1)
      [] k = "false" -> ParseOk(JBool(FALSE), i + 1)
      [] k = "num" -> ParseOk(JNum(toks[i].n), i + 1)
      [] k = "str" -> ParseOk(JStr(toks[i].s), i + 1)
      [] k = "[" ->
           IF i + 1 <= Len(toks) /\ toks[i + 1].k = "]"
           THEN ParseOk(JArr(<<>>), i + 2)
           ELSE ParseElements(toks, i + 1, <<>>)
      [] k = "{" ->
           IF i + 1 <= Len(toks) /\ toks[i + 1].k = "}"
           THEN ParseOk(JObj(<<>>), i + 2)
           ELSE ParseMembers(toks, i + 1, <<>>)
      [] OTHER -> ParseFail

\* JSON.parse(text): the value, or a SyntaxError (ok = FALSE) when the text
\* is not exactly one JSON value.
JSONparse(toks) ==
  LET r == ParseValue(toks, 1) IN
  IF r.ok /\ r.i = Len(toks) + 1 THEN r ELSE ParseFail

\* Index of the last member of o with key k, 0 when there is none.
RECURSIVE LastIndexOfKey(_, _, _)
LastIndexOfKey(o, k, i) ==
  IF i = 0 THEN 0
  ELSE IF o[i].k = k THEN i ELSE LastIndexOfKey(o, k, i - 1)

\* Immutable.fromJS(v): plain objects become maps, arrays become lists,
\* leaves are kept.
RECURSIVE fromJS(_)
fromJS(v) ==
  CASE v.t = "null" -> null
    [] v.t = "b" -> v.b
    [] v.t = "n" -> v.n
    [] v.t = "s" -> v.s
    [] v.t = "a" -> [i \in 1..Len(v.a) |-> fromJS(v.a[i])]
    [] v.t = "o" ->
         [k \in {v.o[i].k : i \in 1..Len(v.o)} |->
            fromJS(v.o[LastIndexOfKey(v.o, k, Len(v.o))].v)]

\* ------------------------------------------------------------ web viewers

\* web-viewer/actions open(options): a blank web viewer, the options laid
\* over the defaults; fresh is the id a viewer gets when none is given.
open(options, fresh) ==
  LET defaults == [id |-> fresh, uri |-> null, isPinned |-> FALSE,
                   isSelected |-> FALSE, isActive |-> FALSE,
                   isFocused |-> FALSE, userInput |-> ""]
  IN [k \in DOMAIN defaults |->
        IF k \in DOMAIN options THEN options[k] ELSE defaults[k]]

\* The id of the n-th viewer opened.
ViewerId(n) == "web-viewer!" \o ToString(n)

\* An id no viewer of the deck has.
FreshId(items) ==
  LET used == {items[i].id : i \in 1..Len(items)}
      n == CHOOSE m \in 1..(Len(items) + 1) :
             /\ ViewerId(m) \notin used
             /\ \A l \in 1..(m - 1) : ViewerId(l) \in used
  IN ViewerId(n)

\* deck/actions predicates. A predicate handed to the deck operations is a
\* record naming it; Test applies it to an item.
isPinned == [f |-> "isPinned", id |-> ""]
isntPinned == [f |-> "isntPinned", id |-> ""]
isActive == [f |-> "isActive", id |-> ""]
isSelected == [f |-> "isSelected", id |-> ""]
\* x => x.get('id') == item.get('id')
hasIdOf(item) == [f |-> "hasIdOf", id |-> item.id]

Test(p, item) ==
  CASE p.f = "isPinned" -> item.isPinned
    [] p.f = "isntPinned" -> ~item.isPinned
    [] p.f = "isActive" -> item.isActive
    [] p.f = "isSelected" -> item.isSelected
    [] p.f = "hasIdOf" -> item.id = p.id

\* items.findIndex(p), 1-based; 0 when no item matches.
FindIndex(items, p) ==
  IF \E i \in 1..Len(items) : Test(p, items[i])
  THEN CHOOSE i \in 1..Len(items) :
         Test(p, items[i]) /\ \A j \in 1..(i - 1) : ~Test(p, items[j])
  ELSE 0

indexOfActive(items) == FindIndex(items, isActive)
indexOfSelected(items) == FindIndex(items, isSelected)

\* deck/actions select(items, to): `to` becomes the one selected item.
select(items, to) ==
  [i \in 1..Len(items) |->
     [items[i] EXCEPT !.isSelected = (items[i].id = to.id)]]

\* deck/actions activate(items): the selected item becomes the active one.
activate(items) ==
  [i \in 1..Len(items) |->
     [items[i] EXCEPT !.isActive = items[i].isSelected]]

\* deck/actions arrange(items): the items in display order.
arrange(items) == items

\* deck/actions insertBefore(items, item, isMatch): item goes before the
\* first item matching isMatch (at the end when none matches); a selected
\* (active) item takes the selection (activation) from the others.
insertBefore(items, item, isMatch) ==
  LET at == FindIndex(items, isMatch)
      n == IF at = 0 THEN Len(items) + 1 ELSE at
      others == [i \in 1..Len(items) |->
                  [items[i] EXCEPT
                     !.isSelected = @ /\ ~item.isSelected,
                     !.isActive = @ /\ ~item.isActive]]
  IN SubSeq(others, 1, n - 1) \o <<item>> \o SubSeq(others, n, Len(others))

\* deck/actions remove(items, p): the items matching p are removed; when
\* the selected (active) item goes, its next sibling, or else the previous
\* one, is selected (activated).
remove(items, p) ==
  LET keep(x) == ~Test(p, x)
      at == FindIndex(items, p)
      rest == SelectSeq(items, keep)
      heir == IF at > Len(rest) THEN Len(rest) ELSE at
      noSel == \A i \in 1..Len(rest) : ~rest[i].isSelected
      noAct == \A i \in 1..Len(rest) : ~rest[i].isActive
  IN [i \in 1..Len(rest) |->
        [rest[i] EXCEPT
           !.isSelected = @ \/ (noSel /\ i = heir),
           !.isActive = @ \/ (noAct /\ i = heir)]]

\* ------------------------------------------------------- browser.js updates

\* openTab(uri)(items): a new selected, focused, active viewer on uri goes
\* before the first viewer that is not pinned.
openTab(uri, items) ==
  insertBefore(items,
               open([uri |-> uri, isSelected |-> TRUE, isFocused |-> TRUE,
                     isActive |-> TRUE], FreshId(items)),
               isntPinned)

\* close(p)(items) with only the remove branch: the guard on count is lost.
closeUnguarded(p, items) == remove(items, p)

\* close(p)(items): with more than one viewer the matching ones are removed,
\* the only viewer is replaced by a fresh selected and active one.
close(p, items) ==
  IF Len(items) > 1 THEN remove(items, p)
  ELSE [items EXCEPT ![1] = open([isSelected |-> TRUE, isActive |-> TRUE],
                                 FreshId(items))]

\* closeTab(item): close the viewers that have the id of item.
closeTab(item, items) == close(hasIdOf(item), items)

\* switchTab(items, to), where to may be undefined (has = FALSE).
switchTab(items, has, to) ==
  IF has THEN activate(select(items, to)) ELSE items

\* switchTab.toIndex(index)(items); index is 0-based as in the source.
switchTabToIndex(index, items) ==
  LET arranged == arrange(items)
      has == index + 1 <= Len(arranged)
  IN switchTab(items, has, IF has THEN arranged[index + 1] ELSE items[1])

\* switchTab.toDashboard = switchTab.toIndex(0)
switchTabToDashboard(items) == switchTabToIndex(0, items)

\* ------------------------------------------------------------ actions.js

\* const version = '0.0.3'
version == "0.0.3"

\* The localStorage key of the session: `session@${version}`.
SessionKey == "session@" \o version

\* The key a previous version of the browser stored its session under.
OtherKey == "session@0.0.2"

\* What the user can type into the location bar.
Locations == {"a.com", "foo bar", "https://b.org"}

\* util/url isNotURL, hasScheme and encodeURIComponent on Locations.
isNotURL(input) == input = "foo bar"
hasScheme(input) == input = "https://b.org"
encodeURIComponent(input) == IF input = "foo bar" THEN "foo%20bar" ELSE input

makeSearchURL(input) ==
  "https://duckduckgo.com/?q=" \o encodeURIComponent(input)

readInputURL(input) ==
  IF isNotURL(input) THEN makeSearchURL(input)
  ELSE IF ~hasScheme(input) THEN "http://" \o input
  ELSE input

\* The hard-coded dashboard items.
dashboardItems == <<
  [image |-> "tiles/facebook.com.png", uri |-> "https://facebook.com",
   title |-> "facebook.com"],
  [image |-> "tiles/youtube.com.png", uri |-> "https://youtube.com",
   title |-> "youtube.com"],
  [image |-> "tiles/amazon.com.png", uri |-> "https://amazon.com",
   title |-> "amazon.com"],
  [image |-> "tiles/wikipedia.org.png", uri |-> "https://wikipedia.org",
   title |-> "wikipedia.org"],
  [image |-> "tiles/twitter.com.png", uri |-> "https://twitter.com",
   title |-> "twitter.com"],
  [image |-> "tiles/mail.google.com.png", uri |-> "https://mail.google.com",
   title |-> "mail.google.com"],
  [image |-> "tiles/nytimes.com.png", uri |-> "https://nytimes.com",
   title |-> "nytimes.com"],
  [image |-> "tiles/qz.com.png", uri |-> "http://qz.com",
   title |-> "qz.com"],
  [image |-> "tiles/github.com.png", uri |-> "https://github.com",
   title |-> "github.com"],
  [image |-> "tiles/dropbox.com.png", uri |-> "https://dropbox.com",
   title |-> "dropbox.com"],
  [image |-> "tiles/linkedin.com.png", uri |-> "https://linkedin.com",
   title |-> "linkedin.com"],
  [image |-> "tiles/yahoo.com.png", uri |-> "https://yahoo.com",
   title |-> "yahoo.com"] >>

\* dashboard/actions initDashboard(options).
initDashboard(options) == [items |-> options.items]

\* resetSession with the location bar focused, as its TODO asks for.
resetSessionInputFocused(hasFocus) ==
  [isDocumentFocused |-> hasFocus,
   input |-> [value |-> "", isFocused |-> TRUE],
   tabStrip |-> [isActive |-> FALSE],
   dashboard |-> initDashboard([items |-> dashboardItems]),
   rfa |-> [id |-> -1],
   suggestions |-> [selectedIndex |-> -1, list |-> <<>>],
   webViewers |-> <<open([id |-> "about:blank", isPinned |-> TRUE,
                          isSelected |-> TRUE, isActive |-> TRUE,
                          isFocused |-> FALSE], "")>>]

\* resetSession(): the blank session; hasFocus is document.hasFocus().
resetSession(hasFocus) ==
  [isDocumentFocused |-> hasFocus,
   input |-> [value |-> "", isFocused |-> FALSE],
   tabStrip |-> [isActive |-> FALSE],
   dashboard |-> initDashboard([items |-> dashboardItems]),
   rfa |-> [id |-> -1],
   suggestions |-> [selectedIndex |-> -1, list |-> <<>>],
   webViewers |-> <<open([id |-> "about:blank", isPinned |-> TRUE,
                          isSelected |-> TRUE, isActive |-> TRUE,
                          isFocused |-> FALSE], "")>>]

\* session.toJSON() of one web viewer.
viewerToJSON(v) ==
  JObj(<<Pair("id", JStr(v.id)),
         Pair("uri", JStrOrNull(v.uri)),
         Pair("isPinned", JBool(v.isPinned)),
         Pair("isSelected", JBool(v.isSelected)),
         Pair("isActive", JBool(v.isActive)),
         Pair("isFocused", JBool(v.isFocused)),
         Pair("userInput", JStr(v.userInput))>>)

\* session.toJSON() of one dashboard item.
itemToJSON(d) ==
  JObj(<<Pair("image", JStr(d.image)), Pair("uri", JStr(d.uri)),
         Pair("title", JStr(d.title))>>)

\* The plain JavaScript object {all: true}, held in the state as it is:
\* set() on a cursor stores its value unconverted.
PlainSelectAll == [plain |-> JObj(<<Pair("all", JBool(TRUE))>>)]

\* session.toJSON() of the input's selection: a plain object has no toJSON
\* and stays as it is, an immutable map is converted.
selectionToJSON(selection) ==
  IF "plain" \in DOMAIN selection THEN selection.plain
  ELSE JObj(<<Pair("all", JBool(selection.all))>>)

\* session.toJSON() of the input.
inputToJSON(input) ==
  JObj(<<Pair("value", JStr(input.value)),
         Pair("isFocused", JBool(input.isFocused))>>
       \o (IF "selection" \in DOMAIN input
           THEN <<Pair("selection", selectionToJSON(input.selection))>>
           ELSE <<>>))

\* session.toJSON(): the deep conversion of the state to plain objects.
toJSON(session) ==
  JObj(<<Pair("isDocumentFocused", JBool(session.isDocumentFocused)),
         Pair("input", inputToJSON(session.input)),
         Pair("tabStrip",
              JObj(<<Pair("isActive", JBool(session.tabStrip.isActive))>>)),
         Pair("dashboard",
              JObj(<<Pair("items",
                          JArr([i \in 1..Len(session.dashboard.items) |->
                                  itemToJSON(session.dashboard.items[i])]))>>)),
         Pair("rfa", JObj(<<Pair("id", JNum(session.rfa.id))>>)),
         Pair("suggestions",
              JObj(<<Pair("selectedIndex",
                          JNum(session.suggestions.selectedIndex)),
                     Pair("list", JArr(<<>>))>>)),
         Pair("webViewers",
              JArr([i \in 1..Len(session.webViewers) |->
                      viewerToJSON(session.webViewers[i])]))>>
       \o (IF "appUpdateAvailable" \in DOMAIN session
           THEN <<Pair("appUpdateAvailable",
                       JBool(session.appUpdateAvailable))>>
           ELSE <<>>))

\* object[key] of a plain object.
GetMember(obj, key) == obj.o[LastIndexOfKey(obj.o, key, Len(obj.o))].v

\* object[key] = value on a plain object: an own key keeps its place, a
\* new key is added last.
SetMember(obj, key, value) ==
  LET at == LastIndexOfKey(obj.o, key, Len(obj.o)) IN
  JObj(IF at = 0 THEN Append(obj.o, Pair(key, value))
       ELSE [obj.o EXCEPT ![at] = Pair(key, value)])

\* One entry of localStorage: missing, or the text stored.
Missing == [present |-> FALSE, text |-> <<>>]
Stored(text) == [present |-> TRUE, text |-> text]

\* What readSession hands back: a session ("value"), null, or an exception.
Returned(session) == [kind |-> "value", session |-> session]
ReturnedNull == [kind |-> "null", session |-> null]
Thrown == [kind |-> "throw", session |-> null]

\* readSession without its try/catch.
readSessionUncaught(storage) ==
  LET entry == storage[SessionKey]
      parsed == JSONparse(entry.text)
  IN IF ~entry.present \/ ~parsed.ok THEN Thrown
     ELSE IF parsed.v.t = "null" THEN ReturnedNull
     ELSE Returned(fromJS(parsed.v))

\* readSession(): JSON.parse of a missing entry (undefined) or of text that
\* is not JSON throws, and the catch returns null.
readSession(storage) ==
  LET entry == storage[SessionKey]
      parsed == JSONparse(entry.text)
  IN IF ~entry.present \/ ~parsed.ok THEN ReturnedNull
     ELSE IF parsed.v.t = "null" THEN ReturnedNull
     ELSE Returned(fromJS(parsed.v))

\* writeSession that stores the session as it is.
writeSessionAsIs(session, storage) ==
  [storage EXCEPT ![SessionKey] = Stored(Stringify(toJSON(session)))]

\* writeSession(session): the storage after it.
writeSession(session, storage) ==
  LET js == toJSON(session)
      js1 == SetMember(js, "appUpdateAvailable", JBool(FALSE))
      js2 == SetMember(js1, "rfa",
                       SetMember(GetMember(js1, "rfa"), "id", JNum(-1)))
  IN [storage EXCEPT ![SessionKey] = Stored(Stringify(js2))]

\* ------------------------------------------------------- cursors, handlers

\* webViewersCursor.update(edit): the edited deck replaces the deck of the
\* application state.
updateWebViewers(s, items) == [s EXCEPT !.webViewers = items]

\* webViewerCursor.set(key, value), the cursor being webViewers[index]: the
\* write lands on the application state as earlier writes of the same
\* handler left it.
setInViewer(s, index, key, value) ==
  [s EXCEPT !.webViewers[index][key] = value]

\* webViewerCursor.merge({uri, isFocused: true})
mergeUriFocused(s, index, uri) ==
  [s EXCEPT !.webViewers[index].uri = uri,
            !.webViewers[index].isFocused = TRUE]

\* navigateTo that opens the tab and leaves the pinned viewer's input alone.
navigateToKeepingInput(s, location) ==
  LET uri == readInputURL(location)
      index == indexOfActive(s.webViewers)
  IN IF Test(isPinned, s.webViewers[index])
     THEN updateWebViewers(s, openTab(uri, s.webViewers))
     ELSE mergeUriFocused(s, index, uri)

\* navigateTo(webViewersCursor, activeWebViewerCursor)(location) on state s.
navigateTo(s, location) ==
  LET uri == readInputURL(location)
      index == indexOfActive(s.webViewers)
  IN IF Test(isPinned, s.webViewers[index])
     THEN setInViewer(updateWebViewers(s, openTab(uri, s.webViewers)),
                      index, "userInput", "")
     ELSE mergeUriFocused(s, index, uri)

\* loadURI(webViewer, uri), curried.
loadURI(s, index, uri) == mergeUriFocused(s, index, uri)

\* Awesomebar onOpen(uri). In the branch of a viewer that is not pinned the
\* curried loadURI is given the viewer only: that returns a function still
\* waiting for the uri, and nothing is merged.
awesomebarOnOpen(s, uri) ==
  IF Test(isPinned, s.webViewers[indexOfActive(s.webViewers)])
  THEN updateWebViewers(s, openTab(uri, s.webViewers))
  ELSE s

\* index.js: readSession() || resetSession()
startSession(storage, hasFocus) ==
  LET read == readSession(storage) IN
  IF read.kind = "value" THEN read.session ELSE resetSession(hasFocus)

\* The record of the handler that ran last: its name, its argument, the
\* number of web viewers it found, and what readSession returned to it.
Handled(op, arg, count, read) ==
  [op |-> op, arg |-> arg, count |-> count, read |-> read]

\* A handler of the running browser.
Ran(op, arg) == Handled(op, arg, Len(state.webViewers), "")

\* The uris the awesomebar suggests and the dashboard opens.
Suggested == {"https://b.org"}

\* The user input the navigation panel records on the selected viewer.
Typed == {"a.com"}

Running == phase = "running" /\ indexOfActive(state.webViewers) > 0

\* ---------------------------------------------------------------- actions

\* index.js: render(Browser, readSession() || resetSession(), document.body)
Startup ==
  /\ phase = "boot"
  /\ \E hasFocus \in BOOLEAN :
       LET read == readSession(localStorage) IN
       /\ phase' = IF read.kind = "throw" THEN "crashed" ELSE "running"
       /\ state' = IF read.kind = "throw" THEN state
                   ELSE startSession(localStorage, hasFocus)
       /\ last' = Handled("startup", "", 0, read.kind)
  /\ UNCHANGED localStorage

\* onDocumentUnload: event => writeSession(immutableState); the page is gone
\* afterwards and index.js runs again when it is loaded the next time.
OnDocumentUnload ==
  /\ Running
  /\ localStorage' = writeSession(state, localStorage)
  /\ phase' = "boot"
  /\ last' = Ran("unload", "")
  /\ UNCHANGED state

\* 'accel shift s': writeSession
OnWriteSession ==
  /\ Running
  /\ localStorage' = writeSession(state, localStorage)
  /\ last' = Ran("writeSession", "")
  /\ UNCHANGED <<phase, state>>

\* 'accel shift backspace': edit(resetSession)
OnResetSession ==
  /\ Running
  /\ \E hasFocus \in BOOLEAN : state' = resetSession(hasFocus)
  /\ last' = Ran("resetSession", "")
  /\ UNCHANGED <<phase, localStorage>>

\* 'accel w': edit(close(isActive))
OnCloseActive ==
  /\ Running
  /\ state' = updateWebViewers(state, close(isActive, state.webViewers))
  /\ last' = Ran("close", "")
  /\ UNCHANGED <<phase, localStorage>>

\* Tab.Deck and WebViewer.Deck onClose: item => update(closeTab(item))
OnClose ==
  /\ Running
  /\ \E i \in 1..Len(state.webViewers) :
       /\ state' = updateWebViewers(state,
                     closeTab(state.webViewers[i], state.webViewers))
       /\ last' = Ran("closeTab", state.webViewers[i].id)
  /\ UNCHANGED <<phase, localStorage>>

\* NavigationPanel onNavigate: navigateTo(webViewersCursor, activeWebViewerCursor)
OnNavigate ==
  /\ Running
  /\ Len(state.webViewers) < MaxViewers
  /\ \E location \in Locations :
       /\ state' = navigateTo(state, location)
       /\ last' = Ran("navigateTo", location)
  /\ UNCHANGED <<phase, localStorage>>

\* Awesomebar onOpen
OnAwesomebarOpen ==
  /\ Running
  /\ Len(state.webViewers) < MaxViewers
  /\ \E uri \in Suggested :
       /\ state' = awesomebarOnOpen(state, uri)
       /\ last' = Ran("awesomebarOpen", uri)
  /\ UNCHANGED <<phase, localStorage>>

\* Dashboard and WebViewer.Deck onOpen: uri => update(openTab(uri))
OnOpen ==
  /\ Running
  /\ Len(state.webViewers) < MaxViewers
  /\ \E uri \in Suggested :
       /\ state' = updateWebViewers(state, openTab(uri, state.webViewers))
       /\ last' = Ran("openTab", uri)
  /\ UNCHANGED <<phase, localStorage>>

\* 'accel t': edit(switchTab.toDashboard)
OnSwitchToDashboard ==
  /\ Running
  /\ state' = updateWebViewers(state, switchTabToDashboard(state.webViewers))
  /\ last' = Ran("toDashboard", "")
  /\ UNCHANGED <<phase, localStorage>>

\* onAppUpdateAvailable: event => immutableState.set('appUpdateAvailable', true)
OnAppUpdateAvailable ==
  /\ Running
  /\ state' = [k \in DOMAIN state \cup {"appUpdateAvailable"} |->
                 IF k = "appUpdateAvailable" THEN TRUE ELSE state[k]]
  /\ last' = Ran("appUpdateAvailable", "")
  /\ UNCHANGED <<phase, localStorage>>

\* 'accel l': compose(selectField, focus) on the input cursor, with
\* focus = focusable => focusable.set('isFocused', true) and
\* select = editable => editable.set('selection', {all: true}).
OnSelectLocation ==
  /\ Running
  /\ state' = [state EXCEPT !.input =
                 [k \in DOMAIN @ \cup {"selection"} |->
                    CASE k = "selection" -> PlainSelectAll
                      [] k = "isFocused" -> TRUE
                      [] OTHER -> @[k]]]
  /\ last' = Ran("selectLocation", "")
  /\ UNCHANGED <<phase, localStorage>>

\* The navigation panel records what the user types on the selected viewer.
OnInputChange ==
  /\ Running
  /\ \E value \in Typed :
       /\ state' = setInViewer(state, indexOfSelected(state.webViewers),
                               "userInput", value)
       /\ last' = Ran("userInput", value)
  /\ UNCHANGED <<phase, localStorage>>

\* The navigation panel keeps the id of its pending animation frame in rfa.
OnAnimationFrame ==
  /\ Running
  /\ state.rfa.id = -1
  /\ state' = [state EXCEPT !.rfa.id = 1]
  /\ last' = Ran("rfa", "")
  /\ UNCHANGED <<phase, localStorage>>

\* ------------------------------------------------------------ specification

\* A session a previous version of the browser left in localStorage.
OtherSession == [resetSession(TRUE) EXCEPT !.input.value = "0.0.2"]

\* localStorage with entry cur under the session key and entry other under
\* the key of the previous version.
Storage(cur, other) ==
  [k \in {SessionKey, OtherKey} |-> IF k = SessionKey THEN cur ELSE other]

\* What localStorage may hold when the browser starts for the first time:
\* nothing or text that is not JSON under the session key, nothing or the
\* session of the previous version under its key.
InitStorages ==
  { Storage(cur, other) :
      cur \in {Missing, Stored(<<Tok("{")>>)},
      other \in {Missing, Stored(Stringify(toJSON(OtherSession)))} }

\* The state index.js renders when it starts on storage.
Started(storage) ==
  \E hasFocus \in BOOLEAN :
    /\ localStorage = storage
    /\ phase = "running"
    /\ state = startSession(storage, hasFocus)
    /\ last = Handled("startup", "", 0, readSession(storage).kind)

\* The deck and navigation handlers, from a first start on empty storage.
Init == Started(Storage(Missing, Missing))

Next ==
  \/ OnResetSession
  \/ OnCloseActive
  \/ OnClose
  \/ OnNavigate
  \/ OnAwesomebarOpen
  \/ OnOpen
  \/ OnSwitchToDashboard
  \/ OnInputChange

Spec == Init /\ [][Next]_vars

\* The session handlers: start, store, restart and reset, with the handlers
\* that change what is stored in between.
InitSession == \E storage \in InitStorages : Started(storage)

NextSession ==
  \/ Startup
  \/ OnDocumentUnload
  \/ OnWriteSession
  \/ OnResetSession
  \/ OnAppUpdateAvailable
  \/ OnAnimationFrame
  \/ OnSelectLocation
  \/ OnNavigate

SpecSession == InitSession /\ [][NextSession]_vars

\* ------------------------------------------------------------------ claims

\* The ids of the viewers of a deck, in deck order.
Ids(items) == [i \in 1..Len(items) |-> items[i].id]

\* The predicate a close handler closes with.
ClosedBy(handled) ==
  IF handled.op = "close" THEN isActive
  ELSE [f |-> "hasIdOf", id |-> handled.arg]

\* What a close handler must make of the deck `items`.
Closed(items, after, p) ==
  LET kept(id) == \A i \in 1..Len(items) :
                    items[i].id = id => ~Test(p, items[i])
  IN /\ Len(after) >= 1
     /\ Len(items) = 1 =>
          /\ Len(after) = 1
          /\ after[1].isSelected /\ after[1].isActive
          /\ after[1].id # items[1].id
          /\ after[1].uri = null /\ after[1].userInput = ""
          /\ ~after[1].isPinned /\ ~after[1].isFocused
     /\ Len(items) > 1 =>
          /\ Ids(after) = SelectSeq(Ids(items), kept)
          /\ Len(after) < Len(items)

\* C1: closing never empties the deck. Every reachable deck holds at least
\* one viewer; a close handler (close(isActive) or closeTab(item)) that
\* finds one viewer leaves one fresh viewer, selected and active, at
\* position 0, and one that finds more removes the viewers matching its
\* predicate and keeps the others in order.
C1_CloseNeverEmptiesDeck ==
  /\ [](Len(state.webViewers) >= 1)
  /\ [][last'.op \in {"close", "closeTab"} =>
          Closed(state.webViewers, state'.webViewers, ClosedBy(last'))]_vars

\* C1 witness: 'accel w' on a deck of one viewer has replaced that viewer
\* by a fresh one.
C1_Witness ==
  /\ last.op = "close" /\ last.count = 1
  /\ Len(state.webViewers) = 1
  /\ state.webViewers[1].uri = null
  /\ ~state.webViewers[1].isPinned
  /\ state.webViewers[1].isActive

\* The text localStorage holds under the session key parses as JSON.
StoredParses(storage) ==
  storage[SessionKey].present /\ JSONparse(storage[SessionKey].text).ok

\* C2: readSession returns the stored session or null and never throws; it
\* returns null when the entry is missing or is not JSON. The browser
\* starts on the stored session when there is one and on the blank session
\* otherwise.
C2_ReadSessionOrBlank ==
  /\ phase # "crashed"
  /\ last.op = "startup" /\ phase = "running" =>
       /\ last.read \in {"value", "null"}
       /\ ~StoredParses(localStorage) => last.read = "null"
       /\ last.read = "value" =>
            /\ StoredParses(localStorage)
            /\ state = fromJS(JSONparse(localStorage[SessionKey].text).v)
       /\ last.read = "null" =>
            \E hasFocus \in BOOLEAN : state = resetSession(hasFocus)

\* C2 witness: the browser has started on a stored session of two viewers.
C2_Witness ==
  /\ last.op = "startup" /\ last.read = "value" /\ phase = "running"
  /\ Len(state.webViewers) = 2
  /\ state.webViewers[2].uri # null

\* The session s as readSession must return it after writeSession(s).
AsStored(s) ==
  [k \in DOMAIN s \cup {"appUpdateAvailable"} |->
     IF k = "appUpdateAvailable" THEN FALSE
     ELSE IF k = "rfa" THEN [s.rfa EXCEPT !.id = -1]
     ELSE s[k]]

\* C3 as claimed: the session round-trips. After writeSession(s),
\* readSession returns s with appUpdateAvailable false and rfa.id -1;
\* writeSession leaves s and every other storage entry as they are;
\* readSession never returns the session stored under the key of another
\* version.
C3_SessionRoundTrip ==
  /\ [](last.op \in {"writeSession", "unload"} =>
          /\ readSession(localStorage).kind = "value"
          /\ readSession(localStorage).session = AsStored(state))
  /\ [](readSession(localStorage).kind = "value" =>
          readSession(localStorage).session # OtherSession)
  /\ [][last'.op \in {"writeSession", "unload"} =>
          /\ state' = state
          /\ localStorage'[OtherKey] = localStorage[OtherKey]
          /\ DOMAIN localStorage' = DOMAIN localStorage]_vars

\* The session s with the plain object it may hold (the input's selection)
\* as the immutable map fromJS makes of it.
AsImmutable(s) ==
  IF "selection" \in DOMAIN s.input /\ "plain" \in DOMAIN s.input.selection
  THEN [s EXCEPT !.input.selection = fromJS(@.plain)]
  ELSE s

\* C3 amended: after writeSession(s), readSession returns s with
\* appUpdateAvailable false, rfa.id -1 and the plain object s may hold as
\* an immutable map; writeSession leaves s and every other storage entry
\* as they are; readSession never returns the session stored under the
\* key of another version.
C3_SessionRoundTripAsImmutable ==
  /\ [](last.op \in {"writeSession", "unload"} =>
          /\ readSession(localStorage).kind = "value"
          /\ readSession(localStorage).session
               = AsStored(AsImmutable(state)))
  /\ [](readSession(localStorage).kind = "value" =>
          readSession(localStorage).session # OtherSession)
  /\ [][last'.op \in {"writeSession", "unload"} =>
          /\ state' = state
          /\ localStorage'[OtherKey] = localStorage[OtherKey]
          /\ DOMAIN localStorage' = DOMAIN localStorage]_vars

\* C3 witness: a session of two viewers with an update available, an
\* animation frame pending and the location selected has been written,
\* next to the session of the previous version.
C3_Witness ==
  /\ last.op = "writeSession"
  /\ "appUpdateAvailable" \in DOMAIN state /\ state.appUpdateAvailable
  /\ state.rfa.id # -1
  /\ "selection" \in DOMAIN state.input
  /\ "plain" \in DOMAIN state.input.selection
  /\ Len(state.webViewers) = 2
  /\ localStorage[OtherKey].present
  /\ readSession(localStorage).kind = "value"

\* C4: 'accel shift backspace' leaves the blank session whatever the state
\* before: one viewer with id 'about:blank', pinned, selected, active, not
\* focused; an empty input that is not focused; an inactive tab strip; rfa
\* id -1; no suggestion selected and none listed.
C4_ResetSessionIsBlank ==
  last.op = "resetSession" =>
    /\ Len(state.webViewers) = 1
    /\ state.webViewers[1].id = "about:blank"
    /\ state.webViewers[1].isPinned
    /\ state.webViewers[1].isSelected
    /\ state.webViewers[1].isActive
    /\ ~state.webViewers[1].isFocused
    /\ state.input.value = "" /\ ~state.input.isFocused
    /\ ~state.tabStrip.isActive
    /\ state.rfa.id = -1
    /\ state.suggestions.selectedIndex = -1
    /\ state.suggestions.list = <<>>

\* C4 witness: the session has been reset from a state of two viewers.
C4_Witness ==
  /\ last.op = "resetSession" /\ last.count = 2
  /\ Len(state.webViewers) = 1

\* Where openTab puts the new viewer in the deck `items`.
OpenedAt(items) ==
  IF FindIndex(items, isntPinned) = 0 THEN Len(items) + 1
  ELSE FindIndex(items, isntPinned)

\* What routing uri from the deck `items` must make of it: a new viewer on
\* uri before the first viewer that is not pinned when the active viewer
\* is pinned, the active viewer on uri otherwise.
Routed(items, after, uri) ==
  LET i == indexOfActive(items)
      n == OpenedAt(items)
  IN IF items[i].isPinned
     THEN /\ Len(after) = Len(items) + 1
          /\ after[n].uri = uri
          /\ after[n].isSelected /\ after[n].isFocused /\ after[n].isActive
          /\ \A j \in 1..Len(items) :
               after[IF j < n THEN j ELSE j + 1].id = items[j].id
     ELSE /\ Len(after) = Len(items)
          /\ after[i].id = items[i].id
          /\ after[i].uri = uri
          /\ after[i].isFocused

\* The pinned viewer that was active in `items` has an empty userInput and
\* its uri in `after`.
PinnedCleared(items, after) ==
  LET i == indexOfActive(items) IN
  items[i].isPinned =>
    \E k \in 1..Len(after) :
      /\ after[k].id = items[i].id
      /\ after[k].userInput = ""
      /\ after[k].uri = items[i].uri

\* C5: navigateTo(location) routes by the active viewer. Pinned: a new
\* selected, focused, active viewer on readInputURL(location) goes before
\* the first viewer that is not pinned, and the pinned viewer keeps its uri
\* and has userInput ''. Not pinned: the active viewer gets the uri and
\* isFocused, and the number of viewers does not change.
C5_NavigateToRoutes ==
  [][last'.op = "navigateTo" =>
       /\ Routed(state.webViewers, state'.webViewers,
                 readInputURL(last'.arg))
       /\ PinnedCleared(state.webViewers, state'.webViewers)]_vars

\* C5 witness: a navigation from the pinned viewer has put the new viewer
\* between it and an older viewer.
C5_Witness ==
  /\ last.op = "navigateTo" /\ last.count = 2
  /\ Len(state.webViewers) = 3
  /\ state.webViewers[1].isPinned /\ state.webViewers[1].userInput = ""
  /\ state.webViewers[2].uri = readInputURL(last.arg)
  /\ state.webViewers[2].isActive
  /\ ~state.webViewers[3].isActive

\* C6: Awesomebar onOpen(uri) routes like navigation: a new selected,
\* focused, active viewer on uri when the active viewer is pinned, the
\* active viewer on uri with isFocused otherwise.
C6_AwesomebarOpenRoutes ==
  [][last'.op = "awesomebarOpen" =>
       Routed(state.webViewers, state'.webViewers, last'.arg)]_vars

====
